---- MODULE Spec2Model ----
(***************************************************************************)
(* Verification-token protocol of eloquentlog/montafon.                    *)
(*                                                                         *)
(* The model covers the record store rows of user_emails with their grant  *)
(* fields (model/user_email.rs), the session store read by the request     *)
(* guard, and the request guard VerificationToken::from_request            *)
(* (request/token/verification.rs), executed statement group by statement  *)
(* group so that the order of its checks is observable.                    *)
(*                                                                         *)
(* Strings are sequences of lexemes.  A lexeme is one of: the              *)
(* Authorization prefix, another prefix, the '.' character, a token header *)
(* segment, a payload segment carrying claims, a signature segment         *)
(* carrying the claims it signs and the key it was made with, or an        *)
(* arbitrary run of alphanumeric characters.                               *)
(***************************************************************************)
EXTENDS Integers, Sequences, FiniteSets, TLC

\* ---------------------------------------------------------------- bounds
MaxGrants == 2
MaxTime == 36
TickHours == 12

\* ------------------------------------------------------ program constants
\* Duration::hours(24)
TokenTTLHours == 24

Subjects == {1, 2}
Null == -1

\* ---------------------------------------------------------------- strings
NoClaims == [sub |-> 0, tok |-> 0, iss |-> "-", exp |-> 0]
Lx(k, c, key) == [k |-> k, c |-> c, key |-> key]
DOT == Lx(".", NoClaims, "-")
HDR == Lx("hdr", NoClaims, "-")
RAW == Lx("raw", NoClaims, "-")
BEARER == Lx("Bearer ", NoClaims, "-")
BASIC == Lx("Basic ", NoClaims, "-")
Pay(c) == Lx("pay", c, "-")
Sig(c, key) == Lx("sig", c, key)

\* str::starts_with
StartsWith(s, p) == Len(s) >= Len(p) /\ SubSeq(s, 1, Len(p)) = p
\* h[PREFIX.len()..]
StripPrefix(s, p) == SubSeq(s, Len(p) + 1, Len(s))

\* str::contains(char)
Contains(s, ch) == \E i \in 1..Len(s) : s[i] = ch

\* ------------------------------------------------------------ configuration
AUTHORIZATION_HEADER_PREFIX == <<BEARER>>
verification_token_issuer == "montafon"
verification_token_secret == "cfg"

\* ----------------------------------------------------------------- codec
RECURSIVE Split(_)
\* the segments of s between its '.' characters
Split(s) ==
    IF ~Contains(s, DOT) THEN <<s>>
    ELSE LET i == CHOOSE j \in 1..Len(s) :
                      s[j] = DOT /\ \A k \in 1..(j - 1) : s[k] # DOT
         IN  <<SubSeq(s, 1, i - 1)>> \o Split(SubSeq(s, i + 1, Len(s)))

\* ClaimsCodec.encode: header.payload.signature
Encode(claims, secret) == <<HDR, DOT, Pay(claims), DOT, Sig(claims, secret)>>

DecodeErr(e) == [ok |-> FALSE, err |-> e, claims |-> NoClaims]
\* ClaimsCodec.decode / verify_token at time t
Decode(signed, issuer, secret, t) ==
    LET parts == Split(signed) IN
    IF \/ Len(parts) # 3
       \/ parts[1] # <<HDR>>
       \/ Len(parts[2]) # 1 \/ Len(parts[3]) # 1
    THEN DecodeErr("Malformed")
    ELSE IF parts[2][1].k # "pay" THEN DecodeErr("Malformed")
    ELSE IF parts[3][1] # Sig(parts[2][1].c, secret)
    THEN DecodeErr("SignatureMismatch")
    ELSE IF parts[2][1].c.iss # issuer THEN DecodeErr("IssuerMismatch")
    ELSE IF t > parts[2][1].c.exp THEN DecodeErr("Expired")
    ELSE [ok |-> TRUE, err |-> "-", claims |-> parts[2][1].c]

\* ------------------------------------------------------------ record store
\* a user_emails row; NoRow where none was inserted
NoRow == [present |-> FALSE, activation_state |-> "-", activation_token |-> Null,
          activation_token_expires_at |-> Null,
          activation_token_granted_at |-> Null]

InsertedRowCarriesState(new_state) ==
    [present |-> TRUE, activation_state |-> new_state, activation_token |-> Null,
     activation_token_expires_at |-> Null, activation_token_granted_at |-> Null]
\* the row UserEmail::insert writes
InsertedRow(new_state) ==
    [present |-> TRUE, activation_state |-> "pending", activation_token |-> Null,
     activation_token_expires_at |-> Null, activation_token_granted_at |-> Null]

GrantUpdateKeepsToken(row, activation_token, granted_at) ==
    [row EXCEPT !.activation_state = "pending",
                !.activation_token =
                    IF @ = Null THEN activation_token ELSE @,
                !.activation_token_expires_at = granted_at + TokenTTLHours,
                !.activation_token_granted_at = granted_at]
GrantUpdateStaleTimes(row, activation_token, granted_at) ==
    [row EXCEPT !.activation_state = "pending",
                !.activation_token = activation_token,
                !.activation_token_expires_at =
                    IF @ = Null THEN granted_at + TokenTTLHours ELSE @,
                !.activation_token_granted_at =
                    IF @ = Null THEN granted_at ELSE @]
GrantUpdateKeepsState(row, activation_token, granted_at) ==
    [row EXCEPT !.activation_token = activation_token,
                !.activation_token_expires_at = granted_at + TokenTTLHours,
                !.activation_token_granted_at = granted_at]
GrantUpdateNoTTL(row, activation_token, granted_at) ==
    [row EXCEPT !.activation_state = "pending",
                !.activation_token = activation_token,
                !.activation_token_expires_at = granted_at,
                !.activation_token_granted_at = granted_at]
\* the update statement of grant_activation_token
GrantUpdate(row, activation_token, granted_at) ==
    [row EXCEPT !.activation_state = "pending",
                !.activation_token = activation_token,
                !.activation_token_expires_at = granted_at + TokenTTLHours,
                !.activation_token_granted_at = granted_at]

\* ----------------------------------------------------------- session store
Nil == <<Lx("nil", NoClaims, "-")>>
SessionKeys == {<<n>> : n \in 0..MaxGrants}
Err == [ok |-> FALSE, val |-> Nil]
Ok(v) == [ok |-> TRUE, val |-> v]
\* ss_conn.get(key) as Result<String, RedisError>: an I/O error and a nil
\* reply (no such key, or a key past its own TTL) are both Err
SsGet(store, key, io) ==
    IF ~io THEN Err
    ELSE IF key \notin DOMAIN store THEN Err
    ELSE IF store[key] = Nil THEN Err
    ELSE Ok(store[key])

\* the session store after ss_conn.get(key): a read leaves every key, and
\* every key's remaining lifetime, as it was
SsAfterGetDel(store, key) ==
    IF key \in DOMAIN store THEN [store EXCEPT ![key] = Nil] ELSE store
SsAfterGet(store, key) == store

\* --------------------------------------------------------------- outcomes
NoOutcome == [kind |-> "none", status |-> "-", err |-> "-", handle |-> NoClaims]
Failure(status, e) ==
    [kind |-> "Failure", status |-> status, err |-> e, handle |-> NoClaims]
Success(claims) ==
    [kind |-> "Success", status |-> "-", err |-> "-", handle |-> claims]
\* Outcome::unwrap on a guard that did not succeed
Panic == [kind |-> "Panic", status |-> "-", err |-> "-", handle |-> NoClaims]
bad_request_by(e) == Failure("BadRequest", e)
not_found_by(e) == Failure("NotFound", e)
unprocessable_entity_by(e) == Failure("UnprocessableEntity", e)

\* ------------------------------------------- VerificationToken::from_request
\* X-Requested-With must be exactly XMLHttpRequest
CsrfCheck(xrw) ==
    IF xrw # "XMLHttpRequest" THEN bad_request_by("Invalid") ELSE NoOutcome

AuthorizationCheckNoMissing(headers) ==
    IF Len(headers) = 1 /\ StartsWith(headers[1], AUTHORIZATION_HEADER_PREFIX)
    THEN NoOutcome
    ELSE bad_request_by("Invalid")
\* match headers.len(): exactly one Authorization header, with the prefix
AuthorizationCheck(headers) ==
    IF Len(headers) = 1
    THEN IF ~StartsWith(headers[1], AUTHORIZATION_HEADER_PREFIX)
         THEN bad_request_by("Invalid")
         ELSE NoOutcome
    ELSE IF Len(headers) = 0 THEN bad_request_by("Missing")
    ELSE bad_request_by("Invalid")

\* let token = h[AUTHORIZATION_HEADER_PREFIX.len()..]
TokenOf(headers) == StripPrefix(headers[1], AUTHORIZATION_HEADER_PREFIX)

DelimiterCheckSkipped(token) == NoOutcome
DelimiterCheckInverted(token) ==
    IF Contains(token, DOT) THEN bad_request_by("Invalid") ELSE NoOutcome
\* if !token.contains('.')
DelimiterCheck(token) ==
    IF ~Contains(token, DOT) THEN bad_request_by("Invalid") ELSE NoOutcome

\* req.guard::<SsConn>().unwrap(): the guard fails when the pool hands out no
\* connection, and unwrap then panics
SsConnGuard(pool_ok) == IF pool_ok THEN NoOutcome ELSE Panic

\* req.get_param(2).and_then(|r| r.ok()).unwrap_or_else(|| "".into())
SessionIdOf(param) == IF param.k = "ok" THEN param.v ELSE <<>>

\* if session_id.is_empty()
SessionIdCheck(session_id) ==
    IF Len(session_id) = 0 THEN bad_request_by("Invalid") ELSE NoOutcome

LookupCheckIgnored(result) == NoOutcome
LookupCheckBadRequest(result) ==
    IF ~result.ok THEN bad_request_by("Unknown") ELSE NoOutcome
\* if result.is_err()
LookupCheck(result) ==
    IF ~result.ok THEN not_found_by("Unknown") ELSE NoOutcome

FullTokenWithoutSecret(token, secret) == token
FullTokenSwapped(token, secret) == secret \o <<DOT>> \o token
\* let verification_token = token + "." + &result.unwrap()
FullToken(token, secret) == token \o <<DOT>> \o secret

DecodeOutcomeUnknown(d) ==
    IF d.ok THEN Success(d.claims) ELSE not_found_by("Unknown")
\* match verify_token(..) { Ok(t) => Success, Err(e) => Expired }
DecodeOutcome(d) ==
    IF d.ok THEN Success(d.claims) ELSE unprocessable_entity_by("Expired")

\* ------------------------------------------------------------------ inputs
\* the fragment delivered to the recipient: header.payload of the signed string
Fragment(signed) == SubSeq(signed, 1, Len(signed) - 2)
\* the part kept in the session store: the signature of the signed string
Signature(signed) == SubSeq(signed, Len(signed), Len(signed))

OtherSubject(r) == CHOOSE x \in Subjects : x # r
\* credentials made from the fragment of an issued token: the fragment with one
\* character of the payload altered (a later expiry, another subject), and the
\* fragment with a further segment
Altered(i) ==
    { <<HDR, DOT, Pay([i.claims EXCEPT !.exp = @ + 1])>>,
      <<HDR, DOT, Pay([i.claims EXCEPT !.sub = OtherSubject(i.claims.sub)])>> }
Extended(i) == <<HDR, DOT, Pay(i.claims), DOT, RAW>>
\* Authorization header lists that fail or pass the header checks
HeaderProbes ==
    {<<>>, << <<>> >>, << <<BASIC, RAW, DOT, RAW>> >>,
     << <<BEARER>> >>, << <<BEARER, RAW>> >>, << <<BEARER, RAW, DOT, RAW>> >>,
     << <<BEARER, RAW, DOT, RAW>>, <<BEARER, RAW, DOT, RAW>> >>}
NoParam == [k |-> "none", v |-> <<>>]
Params ==
    {NoParam, [k |-> "err", v |-> <<>>]}
    \cup {[k |-> "ok", v |-> v] : v \in {<<>>} \cup SessionKeys}
OkParam(v) == [k |-> "ok", v |-> v]
Bearer(c) == << <<BEARER>> \o c >>
\* the requests a client sends: header probes; the fragment of an issued token
\* with any path parameter; a fragment altered or extended, with its session
Requests(iss) ==
    [xrw : {"none", "xmlhttprequest"}, auth : HeaderProbes, param2 : {NoParam}]
    \cup
    [xrw : {"XMLHttpRequest"}, auth : HeaderProbes, param2 : {NoParam}]
    \cup
    [xrw : {"XMLHttpRequest"}, auth : {Bearer(<<RAW, DOT, RAW>>)},
     param2 : {p \in Params : p.v \in {<<>>, <<0>>}}]
    \cup
    UNION {
        [xrw : {"XMLHttpRequest"},
         auth : {Bearer(<<HDR, DOT, Pay(i.claims)>>)},
         param2 : Params]
        \cup
        [xrw : {"XMLHttpRequest"},
         auth : {Bearer(c) : c \in Altered(i) \cup {Extended(i)}},
         param2 : {OkParam(i.sid)}] : i \in iss }

\* ------------------------------------------------------------------- state
\* ----------------------------------------------- callers of the record store
Callers == {1, 2}
\* Option<UserEmail>, Result<String, &'static str>
None == [some |-> FALSE]
Some(u) == [some |-> TRUE, val |-> u]
GrantErr == [ok |-> FALSE, val |-> "failed to grant token"]
NoRet == [ok |-> FALSE, val |-> "-"]
GrantResultAlwaysToken(updated, activation_token) == Ok(activation_token)
\* match q.get_result::<Self>(conn): Err(_) => Err("failed to grant token"),
\* Ok(_) => Ok(activation_token)
GrantResult(updated, activation_token) ==
    IF updated THEN Ok(activation_token) ELSE GrantErr
NoCall ==
    [op |-> "none", pc |-> "idle", r |-> Null, new_state |-> "-",
     activation_token |-> Null, granted_at |-> Null, expires_at |-> Null,
     updates |-> 0, updated |-> FALSE, state_before |-> "-", ret |-> NoRet]

\* ------------------------------------------- users, the queue, its consumers
Consumers == {1, 2}
\* no user has this address
UnknownEmail == 0
NoReset == [reset_password_token |-> Null, reset_password_token_expires_at |-> Null,
            reset_password_token_granted_at |-> Null]
\* the update of the user's password reset grant
ResetGrantUpdate(user, token, granted_at) ==
    [reset_password_token |-> token,
     reset_password_token_expires_at |-> granted_at + TokenTTLHours,
     reset_password_token_granted_at |-> granted_at]

\* job::Job<String> and its form on the queue
Job(kind, args) == [kind |-> kind, args |-> args]
NoJob == Job("-", <<>>)
Serialize(job) == <<job.kind, Len(job.args)>> \o job.args
Deserialize(wire) ==
    Job(wire[1], [n \in 1..wire[2] |-> wire[n + 2]])
\* Queue::enqueue appends; Queue::dequeue takes the oldest job
Enqueue(queue, job) == Append(queue, Serialize(job))
NoResult == [ok |-> FALSE, val |-> NoJob, err |-> "-"]
DequeueErr == [ok |-> FALSE, val |-> NoJob, err |-> "empty"]
DequeueOk(job) == [ok |-> TRUE, val |-> job, err |-> "-"]
DequeueKeepsJob(queue) ==
    IF queue = <<>> THEN [res |-> DequeueErr, queue |-> queue]
    ELSE [res |-> DequeueOk(Deserialize(Head(queue))), queue |-> queue]
DequeueNewest(queue) ==
    IF queue = <<>> THEN [res |-> DequeueErr, queue |-> queue]
    ELSE [res |-> DequeueOk(Deserialize(queue[Len(queue)])),
          queue |-> SubSeq(queue, 1, Len(queue) - 1)]
\* queue.dequeue::<job::Job<String>>() as Result<Job<String>, _>: the result
\* and the queue left
Dequeue(queue) ==
    IF queue = <<>> THEN [res |-> DequeueErr, queue |-> queue]
    ELSE [res |-> DequeueOk(Deserialize(Head(queue))), queue |-> Tail(queue)]

\* the grant is written when the guard passed, the user exists and the
\* update succeeds
ResetGrantedDespiteGuard(pool_ok, found, db_ok) == found /\ db_ok
ResetGranted(pool_ok, found, db_ok) == pool_ok /\ found /\ db_ok

MqConnGuardNeverFails(pool_ok) == NoOutcome
\* MqConn::from_request
MqConnGuard(pool_ok) ==
    IF pool_ok THEN NoOutcome ELSE Failure("ServiceUnavailable", "-")

\* Mailer::send: with no injected client it builds one, and build_client
\* unwraps the result of SmtpClient::new
MailerSend(injected, build_ok, transport_ok) ==
    IF ~injected /\ ~build_ok
    THEN [panic |-> TRUE, attempts |-> 0, ret |-> FALSE]
    ELSE [panic |-> FALSE, attempts |-> 1, ret |-> transport_ok]

NoSent == [panic |-> FALSE, attempts |-> 0, ret |-> FALSE]
NoWork == [pc |-> "idle", job |-> NoJob, res |-> NoResult, sent |-> NoSent,
           transport |-> "-"]
\* a response, and for an OK one the user, fragment and session identifier of
\* the request it answers; conn: the pool handed the request a connection
NoResponse ==
    [status |-> "-", email |-> Null, fragment |-> <<>>, sid |-> <<>>,
     conn |-> FALSE]
Response(status, email, fragment, sid) ==
    [status |-> status, email |-> email, fragment |-> fragment, sid |-> sid,
     conn |-> TRUE]

VARIABLES
    now,        \* the clock, in hours
    rows,       \* user_emails, by id
    nextHash,   \* the next value generate_random_hash returns
    ss,         \* the session store: key -> value, Nil where absent
    issued,     \* the verification tokens issued: [sid, claims]
    pc,         \* where the request guard is
    req,        \* the request it runs on
    loc,        \* its locals
    outcome,    \* what it returned
    trace,      \* the statement groups it executed, in order
    calls,      \* the record store calls of each caller: locals, return value
    log,        \* the grants whose update succeeded, in the order of the updates
    users,      \* users, by id: the password reset grant of each
    mq,         \* the queue "default": the serialized jobs, oldest first
    workers,    \* each consumer: the job it holds, what its last call returned
    resp,       \* the response to the last password reset request
    enqueued,   \* every job enqueued, in order
    delivered,  \* every job a dequeue returned, in order
    outbox      \* the transport attempts made: [job, n], n the number for job

vars == <<now, rows, nextHash, ss, issued, pc, req, loc, outcome, trace,
          calls, log, users, mq, workers, resp, enqueued, delivered, outbox>>
store == <<now, rows, nextHash, ss, issued>>
attempt == <<pc, req, loc, outcome, trace>>
callers == <<calls, log>>
queueing == <<users, mq, workers, resp, enqueued, delivered, outbox>>

NoRequest == [xrw |-> "none", auth |-> <<>>, param2 |-> NoParam]
NoLocals ==
    [token |-> <<>>, session_id |-> <<>>, result |-> Err, decoded_at |-> Null,
     verification_token |-> <<>>, key |-> ""]

Init ==
    /\ now = 0
    /\ rows = [r \in Subjects |-> NoRow]
    /\ nextHash = 1
    /\ ss = [k \in SessionKeys |-> Nil]
    /\ issued = {}
    /\ pc = "idle"
    /\ req = NoRequest
    /\ loc = NoLocals
    /\ outcome = NoOutcome
    /\ trace = <<>>
    /\ calls = [p \in Callers |-> NoCall]
    /\ log = <<>>
    /\ users = [u \in Subjects |-> NoReset]
    /\ mq = <<>>
    /\ workers = [c \in Consumers |-> NoWork]
    /\ resp = NoResponse
    /\ enqueued = <<>>
    /\ delivered = <<>>
    /\ outbox = {}

\* ------------------------------------------------------------- environment
Tick ==
    /\ now + TickHours <= MaxTime
    /\ now' = now + TickHours
    /\ UNCHANGED <<rows, nextHash, ss, issued, attempt>>

\* a session key reaches its own TTL
ExpireSession(k) ==
    /\ ss[k] # Nil
    /\ ss' = [ss EXCEPT ![k] = Nil]
    /\ UNCHANGED <<now, rows, nextHash, issued, attempt>>

\* ------------------------------------------------------------ record store
\* UserEmail::insert: the row is written, or the statement fails (the unique
\* constraint, or the store) and nothing is written
Insert(r, new_state, db_ok) ==
    /\ rows' = IF db_ok /\ ~rows[r].present
               THEN [rows EXCEPT ![r] = InsertedRow(new_state)]
               ELSE rows
    /\ UNCHANGED <<now, nextHash, ss, issued, attempt>>

\* UserEmail::grant_activation_token on the row r
GrantActivationToken(r, db_ok) ==
    /\ rows[r].present
    /\ nextHash <= MaxGrants
    /\ IF db_ok
       THEN /\ rows' = [rows EXCEPT ![r] = GrantUpdate(rows[r], nextHash, now)]
            /\ nextHash' = nextHash + 1
       ELSE UNCHANGED <<rows, nextHash>>
    /\ UNCHANGED <<now, ss, issued, attempt>>

\* the caller of the grant signs the claims of the current grant, delivers the
\* fragment and keeps the signature in the session store under a new key
IssueVerificationToken(r) ==
    LET row == rows[r]
        claims == [sub |-> r, tok |-> row.activation_token,
                   iss |-> verification_token_issuer,
                   exp |-> row.activation_token_expires_at]
        signed == Encode(claims, verification_token_secret)
        sid == <<row.activation_token>>
    IN  /\ row.present /\ row.activation_token # Null
        /\ \A i \in issued : i.claims.tok # row.activation_token
        /\ ss' = [ss EXCEPT ![sid] = Signature(signed)]
        /\ issued' = issued \cup {[sid |-> sid, claims |-> claims]}
        /\ UNCHANGED <<now, rows, nextHash, attempt>>

\* ------------------------------------------------- the request guard, stepped
\* The guard runs in four steps, one for each point where it reads something
\* other than the request: the checks of the request headers, the session
\* store connection with the path parameter, the lookup, the decode.
Continue(ran) == [o |-> NoOutcome, t |-> ran]
Return(o, ran) == [o |-> o, t |-> ran]

\* the checks on the headers, in the order of the code
HeaderChecks(q) ==
    IF CsrfCheck(q.xrw) # NoOutcome
    THEN Return(CsrfCheck(q.xrw), <<"csrf">>)
    ELSE IF AuthorizationCheck(q.auth) # NoOutcome
    THEN Return(AuthorizationCheck(q.auth), <<"csrf", "auth">>)
    ELSE Return(DelimiterCheck(TokenOf(q.auth)), <<"csrf", "auth", "delim">>)

\* the session store connection, then the session identifier
SessionChecks(pool_ok, param) ==
    IF SsConnGuard(pool_ok) # NoOutcome
    THEN Return(SsConnGuard(pool_ok), <<"ssconn">>)
    ELSE Return(SessionIdCheck(SessionIdOf(param)), <<"ssconn", "sid">>)

\* the guard either returns r.o or goes on to the step next
Step(r, next) ==
    /\ trace' = trace \o r.t
    /\ IF r.o # NoOutcome
       THEN outcome' = r.o /\ pc' = "done"
       ELSE outcome' = outcome /\ pc' = next

\* a request arrives and its headers are checked
Receive(q) ==
    /\ pc = "idle"
    /\ req' = q
    /\ loc' = [loc EXCEPT !.token =
                   IF HeaderChecks(q).t = <<"csrf", "auth", "delim">>
                   THEN TokenOf(q.auth) ELSE <<>>]
    /\ Step(HeaderChecks(q), "ssconn")
    /\ UNCHANGED store

AcquireSsConn(pool_ok) ==
    /\ pc = "ssconn"
    /\ loc' = [loc EXCEPT !.session_id =
                   IF pool_ok THEN SessionIdOf(req.param2) ELSE <<>>]
    /\ Step(SessionChecks(pool_ok, req.param2), "lookup")
    /\ UNCHANGED <<store, req>>

LookupSecret(io) ==
    /\ pc = "lookup"
    /\ LET result == SsGet(ss, loc.session_id, io)
       IN  /\ loc' = [loc EXCEPT !.result = result]
           /\ Step(Return(LookupCheck(result), <<"lookup">>), "decode")
    /\ ss' = SsAfterGet(ss, loc.session_id)
    /\ UNCHANGED <<now, rows, nextHash, issued, req>>

DecodeToken ==
    /\ pc = "decode"
    /\ LET verification_token == FullToken(loc.token, loc.result.val)
           key == verification_token_secret
       IN  /\ loc' = [loc EXCEPT !.decoded_at = now,
                                 !.verification_token = verification_token,
                                 !.key = key]
           /\ Step(Return(DecodeOutcome(Decode(verification_token,
                                               verification_token_issuer,
                                               key, now)),
                          <<"decode">>),
                   "done")
    /\ UNCHANGED <<store, req>>

\* the response is sent; the next request may arrive
Finish ==
    /\ pc = "done"
    /\ pc' = "idle"
    /\ req' = NoRequest /\ loc' = NoLocals
    /\ outcome' = NoOutcome /\ trace' = <<>>
    /\ UNCHANGED store

Next ==
  /\ UNCHANGED <<callers, queueing>>
  /\
    \/ Tick
    \/ \E k \in SessionKeys : ExpireSession(k)
    \/ \E r \in Subjects, st \in {"pending", "active"}, ok \in BOOLEAN :
          Insert(r, st, ok)
    \/ \E r \in Subjects, ok \in BOOLEAN : GrantActivationToken(r, ok)
    \/ \E r \in Subjects : IssueVerificationToken(r)
    \/ \E r \in Requests(issued) : Receive(r)
    \/ \E ok \in BOOLEAN : AcquireSsConn(ok)
    \/ \E io \in BOOLEAN : LookupSecret(io)
    \/ DecodeToken
    \/ Finish

Spec == Init /\ [][Next]_vars

\* --------------------------------------- the record store calls, by statement
\* Two callers run UserEmail::insert and grant_activation_token against the
\* same table. An insert is one statement. A grant first computes its token
\* and its two times, then runs one update statement; the statements of the
\* two callers interleave.
Idle(p) == calls[p].pc # "update"

InsertCall(p, r, new_state, db_ok) ==
    /\ Idle(p)
    /\ Insert(r, new_state, db_ok)
    /\ calls' = [calls EXCEPT ![p] =
                    [NoCall EXCEPT !.op = "insert", !.pc = "returned", !.r = r,
                                   !.new_state = new_state,
                                   !.ret = IF rows'[r] # rows[r]
                                           THEN Some(rows'[r]) ELSE None]]
    /\ UNCHANGED log

\* let activation_token = generate_random_hash(..); granted_at = Utc::now();
\* expires_at = granted_at + Duration::hours(24)
BeginGrant(p, r) ==
    /\ Idle(p)
    /\ rows[r].present
    /\ nextHash <= MaxGrants
    /\ nextHash' = nextHash + 1
    /\ calls' = [calls EXCEPT ![p] =
                    [NoCall EXCEPT !.op = "grant", !.pc = "update", !.r = r,
                                   !.activation_token = nextHash,
                                   !.granted_at = now,
                                   !.expires_at = now + TokenTTLHours]]
    /\ UNCHANGED <<now, rows, ss, issued, attempt, log>>

\* diesel::update(self).set((..)).get_result(conn), and the match on it
UpdateGrant(p, db_ok) ==
    LET c == calls[p]
    IN  /\ c.pc = "update"
        /\ IF db_ok
           THEN /\ rows' = [rows EXCEPT ![c.r] =
                               GrantUpdate(rows[c.r], c.activation_token,
                                           c.granted_at)]
                /\ calls' = [calls EXCEPT ![p].pc = "returned",
                                          ![p].updates = @ + 1,
                                          ![p].updated = TRUE,
                                          ![p].state_before =
                                              rows[c.r].activation_state,
                                          ![p].ret = GrantResult(TRUE,
                                                         c.activation_token)]
                /\ log' = Append(log, [p |-> p, r |-> c.r,
                                       activation_token |-> c.activation_token,
                                       granted_at |-> c.granted_at,
                                       expires_at |-> c.expires_at])
           ELSE /\ calls' = [calls EXCEPT ![p].pc = "returned",
                                          ![p].updates = @ + 1,
                                          ![p].updated = FALSE,
                                          ![p].state_before =
                                              rows[c.r].activation_state,
                                          ![p].ret = GrantResult(FALSE,
                                                         c.activation_token)]
                /\ UNCHANGED <<rows, log>>
        /\ UNCHANGED <<now, nextHash, ss, issued, attempt>>

\* the address is activated with its token: the record becomes active
Activate(r) ==
    /\ rows[r].present
    /\ rows[r].activation_token # Null
    /\ rows[r].activation_state = "pending"
    /\ rows' = [rows EXCEPT ![r].activation_state = "active"]
    /\ UNCHANGED <<now, nextHash, ss, issued, attempt, callers>>

NextStore ==
  /\ UNCHANGED queueing
  /\
    \/ Tick /\ UNCHANGED callers
    \/ \E p \in Callers, r \in Subjects, st \in {"pending", "active"},
          ok \in BOOLEAN : InsertCall(p, r, st, ok)
    \/ \E p \in Callers, r \in Subjects : BeginGrant(p, r)
    \/ \E p \in Callers, ok \in BOOLEAN : UpdateGrant(p, ok)

SpecStore == Init /\ [][NextStore]_vars

\* ------------------------------------------ grants on activated addresses
\* One caller, its calls one after another, and the activation of addresses
\* in between and during them.
Sequential == {1}

NextActivation ==
  /\ UNCHANGED queueing
  /\
    \/ Tick /\ UNCHANGED callers
    \/ \E p \in Sequential, r \in Subjects, st \in {"pending", "active"},
          ok \in BOOLEAN : InsertCall(p, r, st, ok)
    \/ \E p \in Sequential, r \in Subjects : BeginGrant(p, r)
    \/ \E p \in Sequential, ok \in BOOLEAN : UpdateGrant(p, ok)
    \/ \E r \in Subjects : Activate(r)

SpecActivation == Init /\ [][NextActivation]_vars

\* ------------------------------- the password reset request and the consumers
\* PUT /_api/password/reset: the MqConn guard, the user by its address, the
\* grant on the user, the signature kept in the session store under a new
\* session identifier, the job enqueued; the first step that fails decides
\* the status and nothing after it runs.
PasswordResetRequest(email, pool_ok, db_ok, ss_ok, mq_ok) ==
    LET token == nextHash
        claims == [sub |-> email, tok |-> token,
                   iss |-> verification_token_issuer,
                   exp |-> now + TokenTTLHours]
        signed == Encode(claims, verification_token_secret)
        sid == <<token>>
        job == Job("SendPasswordResetEmail", <<Fragment(signed), sid>>)
        found == email \in Subjects
        granted == ResetGranted(MqConnGuard(pool_ok) = NoOutcome, found, db_ok)
        stored == granted /\ ss_ok
        queued == stored /\ mq_ok
    IN  /\ nextHash <= MaxGrants
        /\ users' = IF granted
                     THEN [users EXCEPT ![email] =
                              ResetGrantUpdate(users[email], token, now)]
                     ELSE users
        /\ nextHash' = IF granted THEN nextHash + 1 ELSE nextHash
        /\ ss' = IF stored THEN [ss EXCEPT ![sid] = Signature(signed)] ELSE ss
        /\ issued' = IF stored
                      THEN issued \cup {[sid |-> sid, claims |-> claims]}
                      ELSE issued
        /\ mq' = IF queued THEN Enqueue(mq, job) ELSE mq
        /\ enqueued' = IF queued THEN Append(enqueued, job) ELSE enqueued
        /\ resp' = [(IF MqConnGuard(pool_ok) # NoOutcome
                     THEN Response(MqConnGuard(pool_ok).status, Null, <<>>, <<>>)
                     ELSE IF ~found THEN Response("NotFound", Null, <<>>, <<>>)
                     ELSE IF ~queued
                          THEN Response("InternalServerError", Null, <<>>, <<>>)
                     ELSE Response("Ok", email, Fragment(signed), sid))
                    EXCEPT !.conn = pool_ok]
        /\ UNCHANGED <<now, rows, attempt, callers, workers, delivered, outbox>>

\* a consumer takes the oldest job
DequeueJob(c) ==
    LET d == Dequeue(mq)
    IN  /\ workers[c].pc # "holding"
        /\ mq' = d.queue
        /\ workers' = [workers EXCEPT ![c] =
                          [NoWork EXCEPT !.pc = IF d.res.ok THEN "holding"
                                                ELSE "idle",
                                         !.job = d.res.val, !.res = d.res]]
        /\ delivered' = IF d.res.ok THEN Append(delivered, d.res.val)
                         ELSE delivered
        /\ UNCHANGED <<store, attempt, callers, users, resp, enqueued, outbox>>

\* the consumer sends the mail of the job it holds: one call of Mailer::send;
\* whatever it returns the job is done with
SendMail(c, injected, build_ok, transport_ok) ==
    LET m == MailerSend(injected, build_ok, transport_ok)
        job == workers[c].job
        before == {e \in outbox : e.job = job}
    IN  /\ workers[c].pc = "holding"
        /\ workers' = [workers EXCEPT ![c].pc = IF m.panic THEN "panicked"
                                                ELSE "idle",
                                      ![c].sent = m,
                                      ![c].transport =
                                          IF m.attempts = 0 THEN "-"
                                          ELSE IF transport_ok THEN "ok"
                                          ELSE "failed"]
        /\ outbox' = IF m.attempts = 0 THEN outbox
                      ELSE (outbox \ before) \cup
                           {[job |-> job,
                             n |-> IF before = {} THEN m.attempts
                                   ELSE (CHOOSE e \in before : TRUE).n
                                            + m.attempts]}
        /\ UNCHANGED <<store, attempt, callers, users, mq, resp, enqueued,
                       delivered>>

\* what is available to a request: the queue pool, the record store, the
\* session store, the queue; the first that fails ends the request, so one
\* failure at a time covers the outcomes
Faults ==
    {<<TRUE, TRUE, TRUE, TRUE>>, <<FALSE, TRUE, TRUE, TRUE>>,
     <<TRUE, FALSE, TRUE, TRUE>>, <<TRUE, TRUE, FALSE, TRUE>>,
     <<TRUE, TRUE, TRUE, FALSE>>}

NextQueue ==
    \/ Tick /\ UNCHANGED <<callers, queueing>>
    \/ \E email \in Subjects \cup {UnknownEmail}, f \in Faults :
          PasswordResetRequest(email, f[1], f[2], f[3], f[4])
    \/ \E c \in Consumers : DequeueJob(c)
    \/ \E c \in Consumers, injected, build_ok, transport_ok \in BOOLEAN :
          SendMail(c, injected, build_ok, transport_ok)

SpecQueue == Init /\ [][NextQueue]_vars

\* ======================================================== claims: vocabulary
Done == pc = "done"
Verified == outcome.kind = "Success"
Rejected(e) == outcome.kind = "Failure" /\ outcome.err = e
Ran(name) == \E n \in 1..Len(trace) : trace[n] = name
Last(name) == Len(trace) > 0 /\ trace[Len(trace)] = name

\* what the request carries, read off the request alone
CsrfOk == req.xrw = "XMLHttpRequest"
OneBearer ==
    /\ Len(req.auth) = 1
    /\ Len(req.auth[1]) >= 1
    /\ req.auth[1][1] = BEARER
Credential == Tail(req.auth[1])
NumDots(s) == Cardinality({n \in 1..Len(s) : s[n] = DOT})
SidGiven == req.param2.k = "ok" /\ req.param2.v # <<>>

\* the fragment delivered for the issued token i, and the secret stored for it
FragmentOf(i) == Fragment(Encode(i.claims, verification_token_secret))
SecretOf(i) == Signature(Encode(i.claims, verification_token_secret))
\* the request presents exactly the fragment of i with the session of i
Presents(i) ==
    /\ CsrfOk
    /\ req.auth = << <<BEARER>> \o FragmentOf(i) >>
    /\ req.param2 = [k |-> "ok", v |-> i.sid]

\* C1: for every request the outcome is the rejection of the first failing
\* check in the order anti-CSRF header, Authorization header, delimiter,
\* session identifier, session secret lookup, decode; no later check is run
\* after a failing one; and the request is Verified only if all six pass.
C1_FirstFailingCheckDecides ==
    Done =>
        /\ outcome.kind \in {"Failure", "Success"}
        /\ IF ~CsrfOk THEN Rejected("Invalid") /\ Last("csrf")
           ELSE IF ~OneBearer THEN outcome.kind = "Failure" /\ Last("auth")
           ELSE IF NumDots(Credential) = 0
                THEN Rejected("Invalid") /\ Last("delim")
           ELSE IF ~SidGiven THEN Rejected("Invalid") /\ Last("sid")
           ELSE IF ~loc.result.ok THEN outcome.kind = "Failure" /\ Last("lookup")
           ELSE Last("decode")
        /\ Verified =>
              /\ CsrfOk /\ OneBearer /\ NumDots(Credential) >= 1 /\ SidGiven
              /\ loc.result.ok
              /\ trace = <<"csrf", "auth", "delim", "ssconn", "sid", "lookup", "decode">>

\* the same statement over the attempts that return an outcome
C1_AmongReturnedOutcomes == (Done /\ outcome.kind = "Panic") \/ C1_FirstFailingCheckDecides

\* C2: a request that presents the exact issued fragment with the session
\* identifier of its grant, for which the lookup returned the secret stored at
\* issuance, and that is decoded before expires_at, is Verified, and the handle
\* returned carries the subject the token was issued for.
C2_ExactTokenVerifies ==
    \A i \in issued :
        ( /\ Done /\ Presents(i)
          /\ loc.result = Ok(SecretOf(i))
          /\ loc.decoded_at < i.claims.exp )
        => /\ Verified
           /\ outcome.handle.sub = i.claims.sub
           /\ outcome.handle.tok = i.claims.tok

C2_Witness ==
    \E i \in issued :
        /\ Done /\ Presents(i) /\ loc.result = Ok(SecretOf(i))
        /\ loc.decoded_at # Null /\ loc.decoded_at < i.claims.exp
        /\ i.claims.sub = 2 /\ Verified /\ outcome.handle.sub = 2

\* C3: a request that presents the exact issued fragment with the session
\* identifier of its grant, passes the header, credential, session identifier
\* and session secret checks, and is decoded after expires_at, is rejected
\* with the error kind Expired.
C3_AfterExpiryExpired ==
    \A i \in issued :
        ( /\ Done /\ Presents(i)
          /\ loc.result = Ok(SecretOf(i))
          /\ loc.decoded_at > i.claims.exp )
        => Rejected("Expired")

C3_Witness ==
    \E i \in issued :
        /\ Done /\ Presents(i) /\ loc.result = Ok(SecretOf(i))
        /\ loc.decoded_at > i.claims.exp /\ Rejected("Expired")

\* the decode step ran on a fragment of i with one character of its payload
\* altered, under the secret of i
AlteredFragment(i) ==
    /\ loc.token \in Altered(i)
    /\ loc.result = Ok(SecretOf(i))
\* the decode step ran on the fragment of i under the secret of another session
WrongSession(i) ==
    /\ loc.token = FragmentOf(i)
    /\ loc.result.ok /\ loc.result.val # SecretOf(i)

\* C4: an attempt whose decode step fails for a reason other than expiry (an
\* altered character of the fragment, the secret of a different session) is
\* never Verified and is rejected with the error kind Unknown, not Expired.
C4_DecodeFailureUnknown ==
    \A i \in issued :
        (Done /\ Ran("decode") /\ (AlteredFragment(i) \/ WrongSession(i)))
        => ~Verified /\ Rejected("Unknown")

\* the part of C4 the code keeps: such an attempt is never Verified
C4_DecodeFailureNeverVerified ==
    \A i \in issued :
        (Done /\ Ran("decode") /\ (AlteredFragment(i) \/ WrongSession(i)))
        => ~Verified

\* the grant the token i was issued for was overwritten by a later grant, made
\* at an earlier hour than the decode step of the attempt at hand ran
Superseded(i) ==
    /\ rows[i.claims.sub].activation_token # i.claims.tok
    /\ rows[i.claims.sub].activation_token_granted_at < loc.decoded_at

\* C5: once a new grant was issued for a subject, an attempt that presents the
\* previously issued fragment with its old session and old session secret is
\* not Verified.
C5_OldTokenFailsAfterRegrant ==
    \A i \in issued :
        (Done /\ Presents(i) /\ Superseded(i) /\ loc.result = Ok(SecretOf(i)))
        => ~Verified

\* C6: a request whose X-Requested-With header is absent or not exactly
\* XMLHttpRequest is rejected as Invalid; with that header present, zero
\* Authorization headers are rejected as Missing, and two or more, or a single
\* one without the prefix, as Invalid.
C6_HeaderErrorKinds ==
    Done =>
        /\ ~CsrfOk => Rejected("Invalid")
        /\ (CsrfOk /\ Len(req.auth) = 0) => Rejected("Missing")
        /\ (CsrfOk /\ Len(req.auth) >= 2) => Rejected("Invalid")
        /\ (CsrfOk /\ Len(req.auth) = 1 /\ ~OneBearer) => Rejected("Invalid")

C6_Witness == Done /\ CsrfOk /\ Len(req.auth) = 0 /\ Rejected("Missing")

\* C7: a credential without a '.' after the prefix is rejected as Invalid, and
\* neither the session identifier is read nor the session store connection
\* taken or queried for it.
C7_NoDelimiterInvalid ==
    (pc # "idle" /\ CsrfOk /\ OneBearer /\ NumDots(Credential) = 0) =>
        /\ pc = "done"
        /\ ~Ran("ssconn") /\ ~Ran("sid") /\ ~Ran("lookup") /\ ~Ran("decode")
        /\ Done => Rejected("Invalid")

C7_Witness ==
    /\ Done /\ CsrfOk /\ OneBearer /\ NumDots(Credential) = 0
    /\ Rejected("Invalid") /\ Last("delim")

\* the request passed the structural check of its credential
PassedDelimiterCheck == pc = "ssconn" \/ Ran("ssconn")

\* C8 as stated: every request that passes the structural credential check,
\* and so every Verified one, carries a token with exactly one '.'.
C8_ExactlyOneDelimiter ==
    (PassedDelimiterCheck \/ Verified) => NumDots(Credential) = 1

\* C8: every request that passes the structural credential check, and so every
\* Verified one, carries a token with at least one '.'.
C8_AtLeastOneDelimiter ==
    (PassedDelimiterCheck \/ Verified) => (OneBearer /\ NumDots(Credential) >= 1)

C8_Witness == PassedDelimiterCheck /\ OneBearer /\ NumDots(Credential) = 2

\* C9: when the session identifier at parameter index 2 is missing, unparsable
\* or empty, the attempt is rejected as Invalid and the session secret is
\* never looked up.
C9_NoSessionIdInvalid ==
    (Done /\ CsrfOk /\ OneBearer /\ NumDots(Credential) >= 1 /\ ~SidGiven)
    => Rejected("Invalid") /\ ~Ran("lookup")

\* the part of C9 the code keeps: the secret is never looked up, and an attempt
\* that returns an outcome is rejected as Invalid
C9_AmongReturnedOutcomes ==
    (pc # "idle" /\ CsrfOk /\ OneBearer /\ NumDots(Credential) >= 1 /\ ~SidGiven)
    => /\ ~Ran("lookup") /\ pc # "lookup"
       /\ (Done /\ outcome.kind # "Panic") => Rejected("Invalid")

\* C10: when the lookup step finds no value under the session identifier (the
\* key is absent or past its TTL) or the store answers with an error, the
\* attempt ends there, rejected as Unknown, and the decode step is not run.
C10_LookupFailureUnknown ==
    [][ (pc = "lookup" /\ pc' # "lookup")
        => ( (ss[loc.session_id] = Nil \/ ~loc'.result.ok)
             => /\ pc' = "done"
                /\ outcome'.kind = "Failure" /\ outcome'.err = "Unknown"
                /\ trace' = Append(trace, "lookup")
                /\ \A n \in 1..Len(trace') : trace'[n] # "decode" ) ]_vars

C10_Witness ==
    /\ Done /\ Last("lookup") /\ Rejected("Unknown")
    /\ \E i \in issued : i.sid = loc.session_id /\ ss[i.sid] = Nil

\* the text of a decode key, as a value the session store could hold
KeyText(key) == <<Lx("raw", NoClaims, key)>>
\* the secrets the session store holds or has held
StoredSecrets == {SecretOf(i) : i \in issued}

HasGrant(r) == \E n \in 1..Len(log) : log[n].r = r
\* the grant on r whose update ran last
LastGrantOf(r) ==
    log[CHOOSE n \in 1..Len(log) :
            log[n].r = r /\ \A m \in (n + 1)..Len(log) : log[m].r # r]
ReturnedOk(p) ==
    calls[p].op = "grant" /\ calls[p].pc = "returned" /\ calls[p].ret.ok
Present(rs) == {r \in Subjects : rs[r].present}
NoGrantFields(row) ==
    /\ row.activation_token = Null
    /\ row.activation_token_expires_at = Null
    /\ row.activation_token_granted_at = Null

\* C12: after any sequence of successful grant_activation_token calls on a
\* record, the stored activation_token is the token the most recent successful
\* call returned (each grant overwrites the one before); a grant updates the
\* existing row and neither creates nor deletes a row.
C12_LatestGrantStored ==
    /\ [](\A r \in Subjects :
              HasGrant(r) =>
                  rows[r].activation_token = LastGrantOf(r).activation_token)
    /\ [](\A p \in Callers :
              ReturnedOk(p) =>
                  \E n \in 1..Len(log) :
                      /\ log[n].p = p /\ log[n].r = calls[p].r
                      /\ log[n].activation_token = calls[p].ret.val)
    /\ [][Len(log') > Len(log) => Present(rows') = Present(rows)]_vars

\* a second successful grant on a record has overwritten the first
C12_Witness ==
    \E r \in Subjects, p \in Callers :
        /\ Len(log) = 2 /\ log[1].r = r /\ log[2].r = r
        /\ ReturnedOk(p) /\ calls[p].r = r
        /\ calls[p].ret.val = log[2].activation_token
        /\ rows[r].activation_token = calls[p].ret.val
        /\ log[1].activation_token # log[2].activation_token

\* C13: when two grants for the same record run concurrently, the record ends
\* with the activation_token, the granted_at and the expires_at of one single
\* call, the one whose update ran last, never a mixture of the two.
C13_OneWinningGrant ==
    \A r \in Subjects :
        HasGrant(r) =>
            LET g == LastGrantOf(r)
            IN  /\ rows[r].activation_token = g.activation_token
                /\ rows[r].activation_token_granted_at = g.granted_at
                /\ rows[r].activation_token_expires_at = g.expires_at

\* the caller that began first, at another hour, updated last: the two calls
\* overlapped, and the record holds the fields of that caller
C13_Witness ==
    \E r \in Subjects :
        /\ Len(log) = 2 /\ log[1].r = r /\ log[2].r = r
        /\ log[1].p # log[2].p
        /\ log[2].activation_token < log[1].activation_token
        /\ log[2].granted_at < log[1].granted_at
        /\ rows[r].activation_token = log[2].activation_token
        /\ rows[r].activation_token_granted_at = log[2].granted_at

\* C19: every record UserEmail::insert creates has activation_state pending,
\* whatever state the NewUserEmail carried, and its activation_token,
\* granted_at and expires_at stay NULL until a grant_activation_token on it
\* succeeds; an insert that fails returns None and adds no row.
C19_InsertPendingNoGrant ==
    /\ [](\A r \in Subjects :
              (rows[r].present /\ ~HasGrant(r)) =>
                  rows[r].activation_state = "pending" /\ NoGrantFields(rows[r]))
    /\ [][\A p \in Callers :
              (calls'[p] # calls[p] /\ calls'[p].op = "insert") =>
                  IF calls'[p].ret.some
                  THEN /\ ~rows[calls'[p].r].present
                       /\ rows'[calls'[p].r].present
                       /\ rows'[calls'[p].r].activation_state = "pending"
                       /\ NoGrantFields(rows'[calls'[p].r])
                       /\ calls'[p].ret.val = rows'[calls'[p].r]
                  ELSE rows' = rows]_vars

\* an insert that carried the state active created a pending record, still
\* without a grant, and a second insert for the same record returned None
C19_Witness ==
    \E r \in Subjects, p, q \in Callers :
        /\ calls[p].op = "insert" /\ calls[p].r = r /\ calls[p].ret.some
        /\ calls[p].new_state = "active"
        /\ calls[q].op = "insert" /\ calls[q].r = r /\ ~calls[q].ret.some
        /\ rows[r].present /\ rows[r].activation_state = "pending"
        /\ ~HasGrant(r) /\ NoGrantFields(rows[r])

\* C20: in every reachable state a record has either none of
\* activation_token, granted_at, expires_at set, or all three, with
\* expires_at exactly 24 hours after granted_at.
C20_AllOrNoneTTL ==
    \A r \in Subjects :
        \/ NoGrantFields(rows[r])
        \/ /\ rows[r].activation_token # Null
           /\ rows[r].activation_token_granted_at # Null
           /\ rows[r].activation_token_expires_at
                  = rows[r].activation_token_granted_at + TokenTTLHours

\* one record granted twice, past its first grant, and one never granted
C20_Witness ==
    \E r, o \in Subjects :
        /\ rows[r].activation_token # Null
        /\ rows[r].activation_token_granted_at > 0
        /\ rows[r].activation_token_expires_at
               = rows[r].activation_token_granted_at + TokenTTLHours
        /\ Len(log) = 2 /\ log[1].r = r /\ log[2].r = r
        /\ rows[o].present /\ NoGrantFields(rows[o])

\* ------------------------------------------------------ claims on the queue
Waiting == [n \in 1..Len(mq) |-> Deserialize(mq[n])]
Called(c) == workers[c].res # NoResult
SendCalled(c) == workers[c].sent # NoSent
InQueue(job) == \E n \in 1..Len(mq) : Deserialize(mq[n]) = job
Attempts(job) ==
    IF \E e \in outbox : e.job = job
    THEN (CHOOSE e \in outbox : e.job = job).n ELSE 0

C15_AtMostOneConsumer ==
    /\ \A c, d \in Consumers :
           (c # d /\ workers[c].pc = "holding" /\ workers[d].pc = "holding")
               => workers[c].job # workers[d].job
    /\ \A n, m \in 1..Len(delivered) : n # m => delivered[n] # delivered[m]

\* two consumers hold a job at the same time
C15_Witness ==
    /\ Len(delivered) = 2
    /\ \A c \in Consumers : workers[c].pc = "holding" /\ workers[c].job # NoJob

\* C16: Mailer::send makes a single transport attempt and returns true
\* exactly when that attempt succeeded; a failed send is never retried, and a
\* dequeued job whose send failed is not put back on the queue.
C16_SingleAttemptNoRequeue ==
    \A c \in Consumers :
        SendCalled(c) =>
            /\ ~workers[c].sent.panic
            /\ workers[c].sent.attempts = 1
            /\ Attempts(workers[c].job) = 1
            /\ workers[c].sent.ret = (workers[c].transport = "ok")
            /\ ~InQueue(workers[c].job)

\* the same statement over the calls of send that return, and for the others
\* that no attempt was made and the job is not put back
C16_AmongReturnedSends ==
    \A c \in Consumers :
        SendCalled(c) =>
            IF workers[c].sent.panic
            THEN /\ workers[c].sent.attempts = 0
                 /\ Attempts(workers[c].job) = 0
                 /\ ~InQueue(workers[c].job)
            ELSE /\ workers[c].sent.attempts = 1
                 /\ Attempts(workers[c].job) = 1
                 /\ workers[c].sent.ret = (workers[c].transport = "ok")
                 /\ ~InQueue(workers[c].job)

GrantFailed(p) ==
    calls[p].op = "grant" /\ calls[p].pc = "returned" /\ ~calls[p].updated

\* C21: when the update statement of a grant fails, grant_activation_token
\* returns an error, not the token it generated; it has run the statement
\* once only; and the step leaves every record as it was, the previously
\* stored grant fields included.
C21_FailedGrantReturnsError ==
    /\ [](\A p \in Callers :
              GrantFailed(p) =>
                  /\ calls[p].ret = GrantErr
                  /\ calls[p].updates = 1
                  /\ rows[calls[p].r].activation_token
                         # calls[p].activation_token
                  /\ \A n \in 1..Len(log) :
                         log[n].activation_token # calls[p].activation_token)
    /\ [][\A p \in Callers :
              (calls[p].pc = "update" /\ calls'[p].pc = "returned"
               /\ ~calls'[p].updated) => rows' = rows]_vars

\* a grant failed on a record that holds the grant of an earlier call
C21_Witness ==
    \E p \in Callers :
        /\ GrantFailed(p) /\ calls[p].ret = GrantErr
        /\ HasGrant(calls[p].r)
        /\ rows[calls[p].r].activation_token # Null
        /\ rows[calls[p].r].activation_token < calls[p].activation_token

\* C26: every successful grant_activation_token call sets the record's
\* activation_state to pending, whatever it was before the call (a grant on
\* an activated address returns it to pending), and a failed call leaves
\* activation_state unchanged.
C26_GrantSetsPending ==
    [][\A p \in Callers :
          (calls[p].pc = "update" /\ calls'[p].pc = "returned") =>
              LET r == calls[p].r
              IN  IF calls'[p].updated
                  THEN rows'[r].activation_state = "pending"
                  ELSE rows'[r].activation_state = rows[r].activation_state]_vars

\* a grant succeeded on an active record, which is pending again
C26_Witness ==
    \E p \in Callers :
        /\ ReturnedOk(p) /\ calls[p].updated
        /\ calls[p].state_before = "active"
        /\ rows[calls[p].r].activation_state = "pending"
        /\ rows[calls[p].r].activation_token = calls[p].activation_token

\* a grant failed on an active record, which is still active
C26_FailedOnActiveReached ==
    \E q \in Callers :
        /\ GrantFailed(q) /\ calls[q].state_before = "active"
        /\ rows[calls[q].r].activation_state = "active"

\* C22: when a request cannot obtain a queue connection from the pool, the
\* MqConn guard ends with the failure ServiceUnavailable, and the handler does
\* not run (nothing is granted, stored or enqueued); a request whose handler
\* ran held a connection.
C22_NoConnectionServiceUnavailable ==
    /\ [](resp # NoResponse =>
              (resp.status = "ServiceUnavailable") = ~resp.conn)
    /\ [][(resp' # resp /\ ~resp'.conn) =>
              /\ resp'.status = "ServiceUnavailable"
              /\ users' = users /\ ss' = ss /\ mq' = mq
              /\ nextHash' = nextHash]_vars

\* a request found no connection after an earlier one was served
C22_Witness ==
    /\ resp.status = "ServiceUnavailable" /\ ~resp.conn
    /\ mq # <<>>
    /\ \E u \in Subjects : users[u] # NoReset

\* the attempt ended where the session store connection is taken: the pool
\* handed out none
NoSsConn == Done /\ Last("ssconn")

\* C23: during verification a failure or timeout in obtaining the session
\* store connection is surfaced as the typed rejection Unknown; the attempt
\* ends in the terminal state Rejected, not without a typed result.
C23_ConnFailureUnknown ==
    /\ Done => outcome.kind \in {"Success", "Failure"}
    /\ NoSsConn => Rejected("Unknown")

\* C24: every rejected verification attempt carries the status paired with
\* its error kind: Missing and Invalid with BadRequest (400), Unknown with
\* NotFound (404), Expired with UnprocessableEntity (422), and no other pair.
C24_StatusOfKind ==
    (Done /\ outcome.kind = "Failure") =>
        \/ outcome.err \in {"Missing", "Invalid"} /\ outcome.status = "BadRequest"
        \/ outcome.err = "Unknown" /\ outcome.status = "NotFound"
        \/ outcome.err = "Expired" /\ outcome.status = "UnprocessableEntity"

\* an attempt was rejected as Unknown with NotFound after its lookup failed
C24_Witness ==
    /\ Done /\ Last("lookup")
    /\ outcome.kind = "Failure"
    /\ outcome.err = "Unknown" /\ outcome.status = "NotFound"

\* how often the attempt has read the session store
Reads == Cardinality({n \in 1..Len(trace) : trace[n] = "lookup"})

\* C25: a verification attempt, whatever its outcome, leaves the session
\* store and every record's grant fields as they were: it reads the session
\* secret at most once, never writes or expires it, and never modifies the
\* stored grant.
C25_AttemptReadsOnly ==
    /\ [](Reads <= 1)
    /\ [][attempt' # attempt => (ss' = ss /\ rows' = rows)]_vars

\* a verified attempt has read its secret, and the secret and the grant are
\* still stored
C25_Witness ==
    /\ Done /\ Verified /\ Reads = 1
    /\ loc.session_id \in DOMAIN ss
    /\ ss[loc.session_id] = loc.result.val
    /\ \E r \in DOMAIN rows : rows[r] # NoRow /\ rows[r].activation_token # Null

====
